---- MODULE Spec2Model ----
(***************************************************************************)
(* A model of ts.data.either: the Either type (Right | Left) and its       *)
(* combinators, as a caller drives them: one value is constructed, passed  *)
(* through map / andThen steps, and inspected with isRight, isLeft,        *)
(* withDefault and caseOf.                                                 *)
(*                                                                         *)
(* Right and Left instances live in a heap (a sequence of objects, the     *)
(* address is the index), so that `new Right(..)` allocates and            *)
(* `instanceof` looks at the object's class.  Every other JavaScript value *)
(* is a record whose field k names its kind.  A call of a library function *)
(* is an operator from its arguments and the heap to a completion record   *)
(*   [kind |-> "return" | "throw", val, heap, calls]                       *)
(* where calls lists the user functions the call invoked, in order.        *)
(***************************************************************************)
EXTENDS Integers, Sequences, FiniteSets, TLC

VARIABLES heap, cur, last

vars == <<heap, cur, last>>

-----------------------------------------------------------------------------
(* Bounds *)

MaxNum == 1
MaxArr == 2
MaxHeap == 3
MaxSteps == 5

-----------------------------------------------------------------------------
(* JavaScript values *)

Undefined == [k |-> "undefined"]
Null == [k |-> "null"]
Obj == [k |-> "object"]
Num(n) == [k |-> "num", n |-> n]
Str(s) == [k |-> "string", s |-> s]
Bool(b) == [k |-> "bool", b |-> b]
Arr(items) == [k |-> "array", items |-> items]
Err(m) == [k |-> "error", message |-> m]
Ref(a) == [k |-> "ref", addr |-> a]
NaN == [k |-> "nan"]
\* the result of an opaque user function fn applied to arg
App(fn, arg) == [k |-> "app", fn |-> fn, arg |-> arg]

Letters == <<"a", "b", "c", "d">>

Arrays == {Arr(SubSeq(Letters, 1, n)) : n \in 0..MaxArr}

anError == Err("Something is wrong")

Errors == {anError, Err("Something bad happened")}

\* what a caller wraps with right(..)
Payloads == {Num(n) : n \in 0..MaxNum} \cup {Null} \cup Arrays

\* what a caller may pass where an Either is expected
NonEithers == {Null, Undefined, Obj, Arr(<<"a">>)}

-----------------------------------------------------------------------------
(* class Right, class Left *)

Right(value) == [proto |-> "Right", tag |-> "right", value |-> value]

Left(error) == [proto |-> "Left", tag |-> "left", error |-> error]

InstanceOf(value, cls, h) ==
    /\ value.k = "ref"
    /\ value.addr \in DOMAIN h
    /\ h[value.addr].proto = cls

-----------------------------------------------------------------------------
(* Completion records *)

Return(v, h, calls) == [kind |-> "return", val |-> v, heap |-> h, calls |-> calls]

Throw(v, h, calls) == [kind |-> "throw", val |-> v, heap |-> h, calls |-> calls]

RECURSIVE Join(_)
Join(items) ==
    IF Len(items) = 0 THEN ""
    ELSE IF Len(items) = 1 THEN items[1]
    ELSE items[1] \o "," \o Join(Tail(items))

\* `${value}` in a template literal
ToStr(value) ==
    CASE value.k = "null" -> "null"
      [] value.k = "undefined" -> "undefined"
      [] value.k = "num" -> ToString(value.n)
      [] value.k = "string" -> value.s
      [] value.k = "bool" -> IF value.b THEN "true" ELSE "false"
      [] value.k = "array" -> Join(value.items)
      [] value.k = "error" -> "Error: " \o value.message
      [] value.k = "nan" -> "NaN"
      [] OTHER -> "[object Object]"

-----------------------------------------------------------------------------
(* src/either.ts *)

right(value, h) == Return(Ref(Len(h) + 1), Append(h, Right(value)), <<>>)

left(error, h) == Return(Ref(Len(h) + 1), Append(h, Left(error)), <<>>)

assertIsEither(value, h) ==
    IF ~(InstanceOf(value, "Right", h) \/ InstanceOf(value, "Left", h))
    THEN Throw(Err("Value \"" \o ToStr(value) \o "\" is not an Either type"), h, <<>>)
    ELSE Return(Undefined, h, <<>>)

\* isRight that looks at the payload instead of the class: !!value._value
isRight_byPayload(value, h) ==
    LET a == assertIsEither(value, h)
    IN  IF a.kind = "throw" THEN a
        ELSE Return(Bool(/\ InstanceOf(value, "Right", h)
                         /\ h[value.addr].value \notin {Null, Undefined, NaN, Num(0)}),
                    h, <<>>)

isRight(value, h) ==
    LET a == assertIsEither(value, h)
    IN  IF a.kind = "throw" THEN a
        ELSE Return(Bool(InstanceOf(value, "Right", h)), h, <<>>)

isLeft(value, h) ==
    LET a == assertIsEither(value, h)
    IN  IF a.kind = "throw" THEN a
        ELSE Return(Bool(InstanceOf(value, "Left", h)), h, <<>>)

\* withDefault that tests instanceof Right itself instead of calling isLeft
withDefault_unchecked(value, defaultValue, h) ==
    IF InstanceOf(value, "Right", h) THEN Return(h[value.addr].value, h, <<>>)
    ELSE Return(defaultValue, h, <<>>)

\* withDefault that picks by the payload's truthiness: value._value || defaultValue
withDefault_truthy(value, defaultValue, h) ==
    LET l == isLeft(value, h)
    IN  IF l.kind = "throw" THEN l
        ELSE IF l.val.b THEN Return(defaultValue, h, <<>>)
        ELSE IF h[value.addr].value \in {Null, Undefined, NaN, Num(0)}
             THEN Return(defaultValue, h, <<>>)
        ELSE Return(h[value.addr].value, h, <<>>)

withDefault(value, defaultValue, h) ==
    LET l == isLeft(value, h)
    IN  IF l.kind = "throw" THEN l
        ELSE IF l.val.b THEN Return(defaultValue, h, <<>>)
        ELSE Return(h[value.addr].value, h, <<>>)

-----------------------------------------------------------------------------
(* User-supplied functions: the arguments f, onError and the caseOf handlers.
   Each is named; ApplyFn gives what a call of it does. *)

\* const add1 = (n: number) => n + 1, with what + does to the other kinds
add1(n, h) ==
    CASE n.k = "num" -> Return(Num(n.n + 1), h, <<>>)
      [] n.k = "null" -> Return(Num(1), h, <<>>)
      [] n.k = "bool" -> Return(Num(IF n.b THEN 2 ELSE 1), h, <<>>)
      [] n.k \in {"undefined", "nan"} -> Return(NaN, h, <<>>)
      [] OTHER -> Return(Str(ToStr(n) \o "1"), h, <<>>)

\* removeFirstElement: throws on length 0, arr.slice(1) otherwise; a TypeError
\* where arr has no length or no slice
removeFirstElement(arr, h) ==
    CASE arr.k = "array" ->
            IF Len(arr.items) = 0 THEN Throw(Err("Array is empty"), h, <<>>)
            ELSE Return(Arr(Tail(arr.items)), h, <<>>)
      [] arr.k = "string" ->
            IF Len(arr.s) = 0 THEN Throw(Err("Array is empty"), h, <<>>)
            ELSE Return(Str(Tail(arr.s)), h, <<>>)
      [] arr.k \in {"null", "undefined"} ->
            Throw(Err("Cannot read property 'length' of " \o ToStr(arr)), h, <<>>)
      [] OTHER -> Throw(Err("arr.slice is not a function"), h, <<>>)

\* safeRemoveFirst: try { return right(removeFirstElement(arr)) } catch (error) { return left(error) }
safeRemoveFirst(arr, h) ==
    LET r == removeFirstElement(arr, h)
    IN  IF r.kind = "throw" THEN left(r.val, h) ELSE right(r.val, h)

\* err => `Error: ${err.message}`
errorMessage(err, h) ==
    CASE err.k = "error" -> Return(Str("Error: " \o err.message), h, <<>>)
      [] err.k \in {"null", "undefined"} ->
            Throw(Err("Cannot read property 'message' of " \o ToStr(err)), h, <<>>)
      [] OTHER -> Return(Str("Error: undefined"), h, <<>>)

\* (err: Error) => err.message
message(err, h) ==
    CASE err.k = "error" -> Return(Str(err.message), h, <<>>)
      [] err.k \in {"null", "undefined"} ->
            Throw(Err("Cannot read property 'message' of " \o ToStr(err)), h, <<>>)
      [] OTHER -> Return(Undefined, h, <<>>)

\* (arr: string[]) => arr.toString()
toString(arr, h) ==
    IF arr.k \in {"null", "undefined"}
    THEN Throw(Err("Cannot read property 'toString' of " \o ToStr(arr)), h, <<>>)
    ELSE Return(Str(ToStr(arr)), h, <<>>)

\* functions handed to map and andThen
Fns == {"identity", "add1", "removeFirstElement", "constNull", "opaque",
        "throwError", "throwString", "safeRemoveFirst", "rightOf", "leftOf"}

\* the name of x => g(f(x))
ComposedName(g, f) == g \o " after " \o f

RECURSIVE ApplyFn(_, _, _)
ApplyFn(f, a, h) ==
    CASE f = "identity" -> Return(a, h, <<>>)
      [] f = "add1" -> add1(a, h)
      [] f = "removeFirstElement" -> removeFirstElement(a, h)
      [] f = "constNull" -> Return(Null, h, <<>>)
      [] f = "opaque" -> Return(App("opaque", a), h, <<>>)
      [] f = "throwError" -> Throw(anError, h, <<>>)
      [] f = "throwString" -> Throw(Str("oops"), h, <<>>)
      [] f = "safeRemoveFirst" -> safeRemoveFirst(a, h)
      [] f = "rightOf" -> right(a, h)
      [] f = "leftOf" -> left(Err("Something bad happened"), h)
      [] f = "launch" -> Return(Str("Launch " \o ToStr(a) \o " missiles"), h, <<>>)
      [] f = "errorMessage" -> errorMessage(a, h)
      [] f = "fnOk" -> Return(Str("Ok"), h, <<>>)
      [] f = "parseEmpty" -> Throw(Err("Unexpected end of JSON input"), h, <<>>)
      [] f = "message" -> message(a, h)
      [] f = "toString" -> toString(a, h)
      [] OTHER ->
            LET p == CHOOSE p \in Fns \X Fns : f = ComposedName(p[1], p[2])
                r == ApplyFn(p[2], a, h)
            IN  IF r.kind = "throw" THEN r ELSE ApplyFn(p[1], r.val, r.heap)

\* the functions among Fns that build their result with right(..) or left(..)
EitherFns == {"safeRemoveFirst", "rightOf", "leftOf"}

\* zero-argument functions handed to tryCatch
Thunks == {"fnOk", "constNull", "throwError", "throwString", "parseEmpty"}

OnErrors == {"identity", "opaque", "errorMessage", "throwError"}

CaseHandlers ==
    { [Right |-> "launch", Left |-> "errorMessage"],
      [Right |-> "opaque", Left |-> "identity"],
      [Right |-> "identity", Left |-> "opaque"],
      [Right |-> "throwError", Left |-> "throwString"] }

Defaults == {Num(0), Str("default val")}

\* the library invokes user function f on a in role role
Invoke(role, f, a, h) ==
    LET r == ApplyFn(f, a, h)
    IN  [r EXCEPT !.calls = <<[role |-> role, fn |-> f, arg |-> a]>>]

-----------------------------------------------------------------------------
(* src/either.ts: map, andThen, caseOf; tryCatch *)

\* map that tests instanceof Left itself instead of calling isLeft: nothing
\* validates value, and reading _value of null or undefined throws inside the try
map_unchecked(f, value, h) ==
    IF InstanceOf(value, "Left", h) THEN Return(value, h, <<>>)
    ELSE IF value.k \in {"null", "undefined"}
    THEN left(Err("Cannot read property '_value' of " \o ToStr(value)), h)
    ELSE LET a == IF InstanceOf(value, "Right", h) THEN h[value.addr].value ELSE Undefined
             r == Invoke("f", f, a, h)
         IN  IF r.kind = "throw"
             THEN [left(r.val, r.heap) EXCEPT !.calls = r.calls]
             ELSE [right(r.val, r.heap) EXCEPT !.calls = r.calls]

\* map without the application of f: the Right is rebuilt around the old payload
map_noApply(f, value, h) ==
    LET l == isLeft(value, h)
    IN  IF l.kind = "throw" THEN l
        ELSE IF l.val.b THEN Return(value, h, <<>>)
        ELSE right(h[value.addr].value, h)

\* map without its try/catch: what f throws reaches the caller
map_noCatch(f, value, h) ==
    LET l == isLeft(value, h)
    IN  IF l.kind = "throw" THEN l
        ELSE IF l.val.b THEN Return(value, h, <<>>)
        ELSE LET r == Invoke("f", f, h[value.addr].value, h)
             IN  IF r.kind = "throw" THEN r
                 ELSE [right(r.val, r.heap) EXCEPT !.calls = r.calls]

\* map without the Left case: f is applied to value._value, undefined on a Left
map_noLeftCase(f, value, h) ==
    LET l == isLeft(value, h)
    IN  IF l.kind = "throw" THEN l
        ELSE LET a == IF l.val.b THEN Undefined ELSE h[value.addr].value
                 r == Invoke("f", f, a, h)
             IN  IF r.kind = "throw"
                 THEN [left(r.val, r.heap) EXCEPT !.calls = r.calls]
                 ELSE [right(r.val, r.heap) EXCEPT !.calls = r.calls]

\* map that stores f's result in the Right it was given and returns that Right
map_inPlace(f, value, h) ==
    LET l == isLeft(value, h)
    IN  IF l.kind = "throw" THEN l
        ELSE IF l.val.b THEN Return(value, h, <<>>)
        ELSE LET r == Invoke("f", f, h[value.addr].value, h)
             IN  IF r.kind = "throw"
                 THEN [left(r.val, r.heap) EXCEPT !.calls = r.calls]
                 ELSE Return(value, [r.heap EXCEPT ![value.addr].value = r.val], r.calls)

\* map that returns what f returned without wrapping it in a Right
map_unwrapped(f, value, h) ==
    LET l == isLeft(value, h)
    IN  IF l.kind = "throw" THEN l
        ELSE IF l.val.b THEN Return(value, h, <<>>)
        ELSE LET r == Invoke("f", f, h[value.addr].value, h)
             IN  IF r.kind = "throw"
                 THEN [left(r.val, r.heap) EXCEPT !.calls = r.calls]
                 ELSE r

map(f, value, h) ==
    LET l == isLeft(value, h)
    IN  IF l.kind = "throw" THEN l
        ELSE IF l.val.b THEN Return(value, h, <<>>)
        ELSE LET r == Invoke("f", f, h[value.addr].value, h)
             IN  IF r.kind = "throw"
                 THEN [left(r.val, r.heap) EXCEPT !.calls = r.calls]
                 ELSE [right(r.val, r.heap) EXCEPT !.calls = r.calls]

\* andThen with map's try/catch around the call of f
andThen_catches(f, value, h) ==
    LET l == isLeft(value, h)
    IN  IF l.kind = "throw" THEN l
        ELSE IF l.val.b THEN Return(value, h, <<>>)
        ELSE LET r == Invoke("f", f, h[value.addr].value, h)
             IN  IF r.kind = "throw"
                 THEN [left(r.val, r.heap) EXCEPT !.calls = r.calls]
                 ELSE r

\* andThen that wraps what f returns, as map does
andThen_wraps(f, value, h) ==
    LET l == isLeft(value, h)
    IN  IF l.kind = "throw" THEN l
        ELSE IF l.val.b THEN Return(value, h, <<>>)
        ELSE LET r == Invoke("f", f, h[value.addr].value, h)
             IN  IF r.kind = "throw" THEN r
                 ELSE [right(r.val, r.heap) EXCEPT !.calls = r.calls]

\* andThen without the Left case: f is applied to value._value, undefined on a Left
andThen_noLeftCase(f, value, h) ==
    LET l == isLeft(value, h)
    IN  IF l.kind = "throw" THEN l
        ELSE Invoke("f", f, IF l.val.b THEN Undefined ELSE h[value.addr].value, h)

andThen(f, value, h) ==
    LET l == isLeft(value, h)
    IN  IF l.kind = "throw" THEN l
        ELSE IF l.val.b THEN Return(value, h, <<>>)
        ELSE Invoke("f", f, h[value.addr].value, h)

\* caseOf whose Left case does not return and falls through to the Right case
caseOf_fallthrough(caseof, value, h) ==
    LET l == isLeft(value, h)
    IN  IF l.kind = "throw" THEN l
        ELSE IF l.val.b
        THEN LET a == Invoke("Left", caseof.Left, h[value.addr].error, h)
             IN  IF a.kind = "throw" THEN a
                 ELSE LET b == Invoke("Right", caseof.Right, Undefined, a.heap)
                      IN  [b EXCEPT !.calls = a.calls \o b.calls]
        ELSE Invoke("Right", caseof.Right, h[value.addr].value, h)

caseOf(caseof, value, h) ==
    LET l == isLeft(value, h)
    IN  IF l.kind = "throw" THEN l
        ELSE IF l.val.b THEN Invoke("Left", caseof.Left, h[value.addr].error, h)
        ELSE Invoke("Right", caseof.Right, h[value.addr].value, h)

\* tryCatch that rethrows what is not an Error: if (!(e instanceof Error)) throw e
tryCatch_errorsOnly(f, onError, h) ==
    LET r == Invoke("f", f, Undefined, h)
    IN  IF r.kind = "return"
        THEN [right(r.val, r.heap) EXCEPT !.calls = r.calls]
        ELSE IF r.val.k # "error" THEN r
        ELSE LET e == Invoke("onError", onError, r.val, r.heap)
             IN  IF e.kind = "throw"
                 THEN [e EXCEPT !.calls = r.calls \o e.calls]
                 ELSE [left(e.val, e.heap) EXCEPT !.calls = r.calls \o e.calls]

\* tryCatch that wraps the raised value itself, as map does, without onError
tryCatch_noOnError(f, onError, h) ==
    LET r == Invoke("f", f, Undefined, h)
    IN  IF r.kind = "return"
        THEN [right(r.val, r.heap) EXCEPT !.calls = r.calls]
        ELSE [left(r.val, r.heap) EXCEPT !.calls = r.calls]

tryCatch(f, onError, h) ==
    LET r == Invoke("f", f, Undefined, h)
    IN  IF r.kind = "return"
        THEN [right(r.val, r.heap) EXCEPT !.calls = r.calls]
        ELSE LET e == Invoke("onError", onError, r.val, r.heap)
             IN  IF e.kind = "throw"
                 THEN [e EXCEPT !.calls = r.calls \o e.calls]
                 ELSE [left(e.val, e.heap) EXCEPT !.calls = r.calls \o e.calls]

-----------------------------------------------------------------------------
(* The variant of either.ts without assertIsEither, where isLeft is "not an
   instance of Right" (the variant that exports tryCatch) *)

\* value._value or value._error, as JavaScript reads a property
Field(value, name, h) ==
    IF value.k \in {"null", "undefined"}
    THEN Throw(Err("Cannot read property '" \o name \o "' of " \o ToStr(value)), h, <<>>)
    ELSE IF name = "_value" /\ InstanceOf(value, "Right", h)
    THEN Return(h[value.addr].value, h, <<>>)
    ELSE IF name = "_error" /\ InstanceOf(value, "Left", h)
    THEN Return(h[value.addr].error, h, <<>>)
    ELSE Return(Undefined, h, <<>>)

isRightLenient(value, h) == Return(Bool(InstanceOf(value, "Right", h)), h, <<>>)

\* isLeft as "instance of Left": false for what is not an Either
isLeftLenient_instanceofLeft(value, h) ==
    Return(Bool(InstanceOf(value, "Left", h)), h, <<>>)

isLeftLenient(value, h) == Return(Bool(~InstanceOf(value, "Right", h)), h, <<>>)

withDefaultLenient(value, defaultValue, h) ==
    IF isLeftLenient(value, h).val.b THEN Return(defaultValue, h, <<>>)
    ELSE Field(value, "_value", h)

mapLenient(f, value, h) ==
    IF isLeftLenient(value, h).val.b THEN Return(value, h, <<>>)
    ELSE LET a == Field(value, "_value", h)
             r == IF a.kind = "throw" THEN a ELSE Invoke("f", f, a.val, h)
         IN  IF r.kind = "throw"
             THEN [left(r.val, r.heap) EXCEPT !.calls = r.calls]
             ELSE [right(r.val, r.heap) EXCEPT !.calls = r.calls]

andThenLenient(f, value, h) ==
    IF isLeftLenient(value, h).val.b THEN Return(value, h, <<>>)
    ELSE LET a == Field(value, "_value", h)
         IN  IF a.kind = "throw" THEN a ELSE Invoke("f", f, a.val, h)

\* caseOf that reads the payload only where there is a value: value && value._error
caseOfLenient_guarded(caseof, value, h) ==
    IF isLeftLenient(value, h).val.b
    THEN LET e == IF value.k \in {"null", "undefined"} THEN Return(Undefined, h, <<>>)
                  ELSE Field(value, "_error", h)
         IN  Invoke("Left", caseof.Left, e.val, h)
    ELSE LET a == Field(value, "_value", h)
         IN  IF a.kind = "throw" THEN a ELSE Invoke("Right", caseof.Right, a.val, h)

caseOfLenient(caseof, value, h) ==
    IF isLeftLenient(value, h).val.b
    THEN LET e == Field(value, "_error", h)
         IN  IF e.kind = "throw" THEN e ELSE Invoke("Left", caseof.Left, e.val, h)
    ELSE LET a == Field(value, "_value", h)
         IN  IF a.kind = "throw" THEN a ELSE Invoke("Right", caseof.Right, a.val, h)

-----------------------------------------------------------------------------
(* The caller: one construction, then any sequence of combinator calls on the
   value it holds.  last records the latest call: its operation, arguments
   (value is the Either-typed argument), the size of the heap when it was
   made, and its completion. *)

NoCall == [op |-> "none", f |-> "", g |-> "", value |-> Undefined, arg |-> Undefined,
           before |-> 0, kind |-> "return", val |-> Undefined, calls |-> <<>>]

Record(op, f, g, value, arg, r) ==
    [op |-> op, f |-> f, g |-> g, value |-> value, arg |-> arg,
     before |-> Len(heap), kind |-> r.kind, val |-> r.val, calls |-> r.calls]

Started == last.op # "none"

\* a call that yields the value the caller goes on with
Produce(op, f, g, arg, r) ==
    /\ Len(r.heap) <= MaxHeap
    /\ heap' = r.heap
    /\ cur' = IF r.kind = "return" THEN r.val ELSE cur
    /\ last' = Record(op, f, g, cur, arg, r)

\* a call that inspects the value the caller holds
Inspect(op, f, g, arg, r) ==
    /\ Len(r.heap) <= MaxHeap
    /\ heap' = r.heap
    /\ cur' = cur
    /\ last' = Record(op, f, g, cur, arg, r)

CallRight ==
    /\ ~Started
    /\ \E v \in Payloads : Produce("right", "", "", v, right(v, heap))

CallLeft ==
    /\ ~Started
    /\ \E e \in Errors : Produce("left", "", "", e, left(e, heap))

CallTryCatch ==
    /\ ~Started
    /\ \E f \in Thunks, onError \in OnErrors :
          Produce("tryCatch", f, onError, Undefined, tryCatch(f, onError, heap))

\* the caller holds something that is not an Either (cast to any)
HoldNonEither ==
    /\ ~Started
    /\ \E x \in NonEithers :
          /\ cur' = x
          /\ heap' = heap
          /\ last' = [NoCall EXCEPT !.op = "hold", !.arg = x]

CallIsRight ==
    /\ Started
    /\ Inspect("isRight", "", "", Undefined, isRight(cur, heap))

CallIsLeft ==
    /\ Started
    /\ Inspect("isLeft", "", "", Undefined, isLeft(cur, heap))

CallWithDefault ==
    /\ Started
    /\ \E d \in Defaults : Inspect("withDefault", "", "", d, withDefault(cur, d, heap))

CallMap ==
    /\ Started
    /\ \E f \in Fns : Produce("map", f, "", Undefined, map(f, cur, heap))

CallAndThen ==
    /\ Started
    /\ \E f \in Fns : Produce("andThen", f, "", Undefined, andThen(f, cur, heap))

CallCaseOf ==
    /\ Started
    /\ \E c \in CaseHandlers :
          Inspect("caseOf", c.Right, c.Left, Undefined, caseOf(c, cur, heap))

Init ==
    /\ heap = <<>>
    /\ cur = Undefined
    /\ last = NoCall

Next ==
    \/ CallRight
    \/ CallLeft
    \/ CallTryCatch
    \/ HoldNonEither
    \/ CallIsRight
    \/ CallIsLeft
    \/ CallWithDefault
    \/ CallMap
    \/ CallAndThen
    \/ CallCaseOf

Spec == Init /\ [][Next]_vars

-----------------------------------------------------------------------------
(* The same caller on the variant without assertIsEither *)

CallIsRightLenient ==
    /\ Started
    /\ Inspect("isRight", "", "", Undefined, isRightLenient(cur, heap))

CallIsLeftLenient ==
    /\ Started
    /\ Inspect("isLeft", "", "", Undefined, isLeftLenient(cur, heap))

CallWithDefaultLenient ==
    /\ Started
    /\ \E d \in Defaults :
          Inspect("withDefault", "", "", d, withDefaultLenient(cur, d, heap))

CallMapLenient ==
    /\ Started
    /\ \E f \in Fns : Produce("map", f, "", Undefined, mapLenient(f, cur, heap))

CallAndThenLenient ==
    /\ Started
    /\ \E f \in Fns : Produce("andThen", f, "", Undefined, andThenLenient(f, cur, heap))

CallCaseOfLenient ==
    /\ Started
    /\ \E c \in CaseHandlers :
          Inspect("caseOf", c.Right, c.Left, Undefined, caseOfLenient(c, cur, heap))

NextLenient ==
    \/ CallRight
    \/ CallLeft
    \/ CallTryCatch
    \/ HoldNonEither
    \/ CallIsRightLenient
    \/ CallIsLeftLenient
    \/ CallWithDefaultLenient
    \/ CallMapLenient
    \/ CallAndThenLenient
    \/ CallCaseOfLenient

SpecLenient == Init /\ [][NextLenient]_vars

-----------------------------------------------------------------------------
(* caseOf as the README documents it and the older tests use it: the result of
   the synchronous case analysis handed over in a Promise *)

\* a Promise, with the resolve and reject calls made on it, in order
Promise(settled) == [k |-> "promise", settled |-> settled]

\* resolves with what the Right handler returned, rejects with what the Left
\* handler returned; what the case analysis raises reaches the caller
caseOfPromise(caseof, value, h) ==
    LET l == isLeft(value, h)
        r == caseOf(caseof, value, h)
    IN  IF l.kind = "throw" THEN l
        ELSE IF r.kind = "throw" THEN r
        ELSE Return(Promise(<<[how |-> IF l.val.b THEN "reject" ELSE "resolve",
                               val |-> r.val]>>),
                    r.heap, r.calls)

CallCaseOfPromise ==
    /\ Started
    /\ \E c \in CaseHandlers :
          Inspect("caseOfPromise", c.Right, c.Left, Undefined,
                  caseOfPromise(c, cur, heap))

NextPromise ==
    \/ CallRight
    \/ CallLeft
    \/ HoldNonEither
    \/ CallIsRight
    \/ CallIsLeft
    \/ CallWithDefault
    \/ CallMap
    \/ CallAndThen
    \/ CallCaseOfPromise

SpecPromise == Init /\ [][NextPromise]_vars

-----------------------------------------------------------------------------
(* A chain: right(v) or left(e), then map with any function and andThen with
   functions that keep their contract, Either<B> for an A *)

IsEither(value, h) == InstanceOf(value, "Right", h) \/ InstanceOf(value, "Left", h)

\* f: (a: A) => Either<B>, on the payload of value: f returns a Right or a Left
\* there, or raises
ReturnsEither(f, value, h) ==
    InstanceOf(value, "Right", h) =>
        LET r == ApplyFn(f, h[value.addr].value, h)
        IN  r.kind = "return" => IsEither(r.val, r.heap)

\* the chain goes on with what andThen returned
CallAndThenEither ==
    /\ Started
    /\ \E f \in Fns :
          /\ ReturnsEither(f, cur, heap)
          /\ Produce("andThen", f, "", Undefined, andThen(f, cur, heap))

\* andThen with a function that breaks its contract; the chain does not go on
\* with the result
CallAndThenAny ==
    /\ Started
    /\ \E f \in Fns :
          /\ ~ReturnsEither(f, cur, heap)
          /\ Inspect("andThen", f, "", Undefined, andThen(f, cur, heap))

NextClosed ==
    \/ CallRight
    \/ CallLeft
    \/ CallMap
    \/ CallAndThenEither
    \/ CallAndThenAny
    \/ CallIsRight
    \/ CallIsLeft
    \/ CallWithDefault
    \/ CallCaseOf

SpecClosed == Init /\ [][NextClosed]_vars

-----------------------------------------------------------------------------
(* The pipeline of the andThen test and of the README: safeRemoveFirst applied
   to an array, then (arr) => andThen(safeRemoveFirst, arr) again and again *)

\* one function of the pipeline applied to the accumulator
PipelineStep(fn, acc, h) ==
    IF fn.via = "andThen" THEN andThen(fn.fn, acc, h)
    ELSE Invoke("pipeline", fn.fn, acc, h)

\* fns.reduce((acc, fn) => fn(acc), initialValue)
RECURSIVE pipeline(_, _, _)
pipeline(initialValue, fns, h) ==
    IF Len(fns) = 0 THEN Return(initialValue, h, <<>>)
    ELSE LET r == PipelineStep(Head(fns), initialValue, h)
         IN  IF r.kind = "throw" THEN r
             ELSE LET rest == pipeline(r.val, Tail(fns), r.heap)
                  IN  [rest EXCEPT !.calls = r.calls \o rest.calls]

\* safeRemoveFirst, then steps - 1 times (arr) => andThen(safeRemoveFirst, arr)
RemoveFirstSteps(steps) ==
    [i \in 1..steps |->
        [via |-> IF i = 1 THEN "direct" ELSE "andThen", fn |-> "safeRemoveFirst"]]

ChainHandlers == [Right |-> "toString", Left |-> "message"]

\* the string arrays a pipeline starts from
InitialValues == {Arr(items) : items \in UNION {[1..n -> {"a", "b", "c"}] : n \in 0..MaxArr}}

CallPipeline ==
    /\ ~Started
    /\ \E arr \in InitialValues, steps \in 1..MaxSteps :
          Produce("pipeline", "safeRemoveFirst", "",
                  [k |-> "arguments", initialValue |-> arr, steps |-> steps],
                  pipeline(arr, RemoveFirstSteps(steps), heap))

CallCaseOfChain ==
    /\ Started
    /\ Inspect("caseOf", ChainHandlers.Right, ChainHandlers.Left, Undefined,
               caseOf(ChainHandlers, cur, heap))

NextChain ==
    \/ CallPipeline
    \/ CallIsRight
    \/ CallIsLeft
    \/ CallWithDefault
    \/ CallCaseOf
    \/ CallCaseOfChain

SpecChain == Init /\ [][NextChain]_vars

-----------------------------------------------------------------------------
(* A caller that maps a composed function x => g(f(x)) over what it built *)

CallMapComposed ==
    /\ last.op \in {"right", "left"}
    /\ \E f \in Fns, g \in Fns :
          Produce("map", ComposedName(g, f), "", Undefined,
                  map(ComposedName(g, f), cur, heap))

NextComposed ==
    \/ CallRight
    \/ CallLeft
    \/ CallMapComposed

SpecComposed == Init /\ [][NextComposed]_vars

-----------------------------------------------------------------------------
(* Properties.  They read the latest call from last. *)

\* the heap as it was when the latest call was made
HeapBefore == SubSeq(heap, 1, last.before)

ArgIsRight == InstanceOf(last.value, "Right", HeapBefore)

ArgIsLeft == InstanceOf(last.value, "Left", HeapBefore)

\* what f does on the payload of the Right the latest call was given
FOnPayload == ApplyFn(last.f, HeapBefore[last.value.addr].value, HeapBefore)

\* the one invocation of f on the payload of the Right argument
OneCallOnPayload ==
    <<[role |-> "f", fn |-> last.f, arg |-> HeapBefore[last.value.addr].value]>>

\* C1: map(f, right(v)), where f returns normally on v, returns a Right whose
\* payload is f(v), having invoked f exactly once, on v; with the identity
\* function the result equals right(v).
C1_MapOnRight ==
    (last.op = "map" /\ ArgIsRight /\ FOnPayload.kind = "return") =>
        /\ last.kind = "return"
        /\ InstanceOf(last.val, "Right", heap)
        /\ heap[last.val.addr].value = FOnPayload.val
        /\ last.calls = OneCallOnPayload
        /\ (last.f = "identity" => heap[last.val.addr] = heap[last.value.addr])

C1_Witness ==
    /\ last.op = "map"
    /\ last.f = "add1"
    /\ ArgIsRight
    /\ InstanceOf(last.val, "Right", heap)
    /\ heap[last.value.addr].value = Num(0)
    /\ heap[last.val.addr].value = Num(1)

\* C2: map never raises on a Right or a Left; when f raises err on the payload
\* of a Right, map returns a Left whose payload is err itself.
C2_MapCatches ==
    (last.op = "map" /\ (ArgIsRight \/ ArgIsLeft)) =>
        /\ last.kind = "return"
        /\ (ArgIsRight /\ FOnPayload.kind = "throw") =>
              /\ InstanceOf(last.val, "Left", heap)
              /\ heap[last.val.addr].error = FOnPayload.val

C2_Witness ==
    /\ last.op = "map"
    /\ last.f = "removeFirstElement"
    /\ ArgIsRight
    /\ heap[last.value.addr].value = Arr(<<>>)
    /\ last.kind = "return"
    /\ InstanceOf(last.val, "Left", heap)
    /\ heap[last.val.addr].error = Err("Array is empty")

\* C3: map(f, left(e)) returns a Left carrying e, and f is not invoked.
C3_MapOnLeft ==
    (last.op = "map" /\ ArgIsLeft) =>
        /\ last.kind = "return"
        /\ InstanceOf(last.val, "Left", heap)
        /\ heap[last.val.addr].error = HeapBefore[last.value.addr].error
        /\ last.calls = <<>>

C3_Witness ==
    /\ last.op = "map"
    /\ last.f = "add1"
    /\ ArgIsLeft
    /\ InstanceOf(last.val, "Left", heap)
    /\ heap[last.val.addr].error = anError

\* C4: andThen(f, right(v)), for f that returns an Either, invokes f exactly
\* once, on v, and returns what f returned, a Right or a Left, with nothing
\* wrapped around it and nothing else allocated.
C4_AndThenOnRight ==
    (last.op = "andThen" /\ ArgIsRight /\ last.f \in EitherFns) =>
        /\ last.calls = OneCallOnPayload
        /\ last.kind = FOnPayload.kind
        /\ last.val = FOnPayload.val
        /\ heap = FOnPayload.heap

C4_Witness ==
    /\ last.op = "andThen"
    /\ last.f = "safeRemoveFirst"
    /\ ArgIsRight
    /\ heap[last.value.addr].value = Arr(<<>>)
    /\ InstanceOf(last.val, "Left", heap)
    /\ heap[last.val.addr].error = Err("Array is empty")

\* C5: andThen(f, left(e)) returns a Left carrying e, and f is not invoked.
C5_AndThenOnLeft ==
    (last.op = "andThen" /\ ArgIsLeft) =>
        /\ last.kind = "return"
        /\ InstanceOf(last.val, "Left", heap)
        /\ heap[last.val.addr].error = HeapBefore[last.value.addr].error
        /\ last.calls = <<>>

C5_Witness ==
    /\ last.op = "andThen"
    /\ last.f = "safeRemoveFirst"
    /\ ArgIsLeft
    /\ InstanceOf(last.val, "Left", heap)
    /\ heap[last.val.addr].error = Err("Array is empty")

\* C6: Left is absorbing.  Once the caller holds a Left, every later call leaves
\* it holding that same Left, with the payload it had; a map or andThen step
\* given it invokes no user function and allocates nothing, so the chain never
\* returns to a Right.
C6_LeftAbsorbing ==
    [][InstanceOf(cur, "Left", heap) =>
          /\ cur' = cur
          /\ InstanceOf(cur', "Left", heap')
          /\ heap'[cur'.addr].error = heap[cur.addr].error
          /\ (last'.op \in {"map", "andThen"} =>
                /\ last'.calls = <<>>
                /\ last'.kind = "return"
                /\ last'.val = cur
                /\ heap' = heap)]_vars

\* a chain that began with a Right, failed at its first step, and was then
\* taken through a further andThen step
C6_Witness ==
    /\ Len(heap) >= 2
    /\ heap[1].proto = "Right"
    /\ InstanceOf(cur, "Left", heap)
    /\ cur.addr = 2
    /\ last.op = "andThen"
    /\ last.value = cur
    /\ last.val = cur

\* C7: withDefault(right(v), d) returns v and withDefault(left(e), d) returns d,
\* whatever the payload: withDefault(right(null), d) returns null.
C7_WithDefault ==
    (last.op = "withDefault" /\ (ArgIsRight \/ ArgIsLeft)) =>
        /\ last.kind = "return"
        /\ last.calls = <<>>
        /\ (ArgIsRight => last.val = heap[last.value.addr].value)
        /\ (ArgIsLeft => last.val = last.arg)

C7_Witness ==
    /\ last.op = "withDefault"
    /\ ArgIsRight
    /\ heap[last.value.addr].value = Null
    /\ last.arg = Num(0)
    /\ last.val = Null

\* C8: caseOf on a Right or a Left invokes exactly one handler, exactly once:
\* the Right handler on the payload of a Right, the Left handler on the error
\* of a Left; what that handler returns is what caseOf returns.
C8_CaseOfOneHandler ==
    (last.op = "caseOf" /\ (ArgIsRight \/ ArgIsLeft)) =>
        LET role == IF ArgIsRight THEN "Right" ELSE "Left"
            handler == IF ArgIsRight THEN last.f ELSE last.g
            payload == IF ArgIsRight THEN heap[last.value.addr].value
                       ELSE heap[last.value.addr].error
            done == ApplyFn(handler, payload, HeapBefore)
        IN  /\ last.calls = <<[role |-> role, fn |-> handler, arg |-> payload]>>
            /\ last.kind = done.kind
            /\ last.val = done.val

C8_Witness ==
    /\ last.op = "caseOf"
    /\ ArgIsLeft
    /\ last.g = "errorMessage"
    /\ last.kind = "return"
    /\ last.val = Str("Error: Something is wrong")

\* C9: tryCatch(f, onError) invokes f exactly once; when f returns v the
\* result is a Right of v and onError is not invoked; when f raises err,
\* onError is invoked exactly once, on err, and the result is a Left of what
\* onError returned.
C9_TryCatch ==
    last.op = "tryCatch" =>
        LET fcall == [role |-> "f", fn |-> last.f, arg |-> Undefined]
            done == ApplyFn(last.f, Undefined, HeapBefore)
            handled == ApplyFn(last.g, done.val, done.heap)
        IN  /\ done.kind = "return" =>
                  /\ last.calls = <<fcall>>
                  /\ last.kind = "return"
                  /\ InstanceOf(last.val, "Right", heap)
                  /\ heap[last.val.addr].value = done.val
            /\ done.kind = "throw" =>
                  /\ last.calls = <<fcall, [role |-> "onError", fn |-> last.g, arg |-> done.val]>>
                  /\ handled.kind = "return" =>
                        /\ last.kind = "return"
                        /\ InstanceOf(last.val, "Left", heap)
                        /\ heap[last.val.addr].error = handled.val

C9_Witness ==
    /\ last.op = "tryCatch"
    /\ last.f = "parseEmpty"
    /\ last.g = "opaque"
    /\ InstanceOf(last.val, "Left", heap)
    /\ heap[last.val.addr].error = App("opaque", Err("Unexpected end of JSON input"))

\* C10: of every object right(..) or left(..) has built, exactly one of isRight
\* and isLeft is true: isRight of what right built, isLeft of what left built,
\* whatever the payload; and that is what a call of either returned.
C10_ExactlyOneVariant ==
    /\ \A a \in DOMAIN heap :
          LET r == isRight(Ref(a), heap)
              l == isLeft(Ref(a), heap)
          IN  /\ r.kind = "return" /\ l.kind = "return"
              /\ r.val.b # l.val.b
              /\ r.val.b = (heap[a].tag = "right")
              /\ l.val.b = (heap[a].tag = "left")
    /\ (last.op = "isRight" /\ (ArgIsRight \/ ArgIsLeft)) =>
          last.kind = "return" /\ last.val = Bool(heap[last.value.addr].tag = "right")
    /\ (last.op = "isLeft" /\ (ArgIsRight \/ ArgIsLeft)) =>
          last.kind = "return" /\ last.val = Bool(heap[last.value.addr].tag = "left")

C10_Witness ==
    /\ last.op = "isRight"
    /\ ArgIsRight
    /\ heap[last.value.addr].value = Null
    /\ last.val = Bool(TRUE)

\* the functions that take an Either-typed argument
ValidatingOps == {"isRight", "isLeft", "withDefault", "map", "andThen", "caseOf"}

NotAnEither(text) == Err("Value \"" \o text \o "\" is not an Either type")

\* C11: given a value that is neither a Right nor a Left, each of isRight,
\* isLeft, withDefault, map, andThen and caseOf raises the error
\* 'Value "<value>" is not an Either type', <value> being the value as a
\* template literal prints it, and invokes no user function or handler.
C11_StrictRaises ==
    (last.op \in ValidatingOps /\ ~(ArgIsRight \/ ArgIsLeft)) =>
        /\ last.kind = "throw"
        /\ last.val = NotAnEither(ToStr(last.value))
        /\ last.calls = <<>>
        /\ heap = HeapBefore
        /\ (last.value = Null => last.val = NotAnEither("null"))
        /\ (last.value = Undefined => last.val = NotAnEither("undefined"))
        /\ (last.value = Obj => last.val = NotAnEither("[object Object]"))
        /\ (last.value = Arr(<<"a">>) => last.val = NotAnEither("a"))

C11_Witness ==
    /\ last.op = "map"
    /\ last.f = "add1"
    /\ last.value = Obj
    /\ last.kind = "throw"
    /\ last.val = Err("Value \"[object Object]\" is not an Either type")

\* C12: in the variant without assertIsEither, given a value that is not a
\* Right, none of isRight, isLeft, withDefault, map and andThen raises or
\* invokes the function it was given: isRight returns false, isLeft true,
\* withDefault the default, and isLeft is true of what map and andThen return.
C12_LenientTreatsAsLeft ==
    (last.op \in {"isRight", "isLeft", "withDefault", "map", "andThen"} /\ ~ArgIsRight) =>
        /\ last.kind = "return"
        /\ last.calls = <<>>
        /\ (last.op = "isRight" => last.val = Bool(FALSE))
        /\ (last.op = "isLeft" => last.val = Bool(TRUE))
        /\ (last.op = "withDefault" => last.val = last.arg)
        /\ (last.op \in {"map", "andThen"} =>
              isLeftLenient(last.val, heap) = Return(Bool(TRUE), heap, <<>>))

C12_Witness ==
    /\ last.op = "andThen"
    /\ last.f = "rightOf"
    /\ last.value = Null
    /\ last.kind = "return"
    /\ last.calls = <<>>
    /\ ~InstanceOf(last.val, "Right", heap)

\* whether each call of the five functions on x completes by "return" or "throw",
\* in src/either.ts and in the variant without assertIsEither
StrictOutcomes(x, h) ==
    {isRight(x, h).kind, isLeft(x, h).kind}
        \cup {withDefault(x, d, h).kind : d \in Defaults}
        \cup {map(f, x, h).kind : f \in Fns}
        \cup {andThen(f, x, h).kind : f \in Fns}

LenientOutcomes(x, h) ==
    {isRightLenient(x, h).kind, isLeftLenient(x, h).kind}
        \cup {withDefaultLenient(x, d, h).kind : d \in Defaults}
        \cup {mapLenient(f, x, h).kind : f \in Fns}
        \cup {andThenLenient(f, x, h).kind : f \in Fns}

\* C13: each implementation applies one policy to a value x that is neither a
\* Right nor a Left: isRight, isLeft, withDefault, map and andThen, with any
\* function or default, all raise on x or all return on x, and a call made on
\* x raises exactly when isLeft raises on x.
C13_OnePolicy ==
    /\ (Started /\ ~InstanceOf(cur, "Right", heap) /\ ~InstanceOf(cur, "Left", heap)) =>
          /\ Cardinality(StrictOutcomes(cur, heap)) = 1
          /\ Cardinality(LenientOutcomes(cur, heap)) = 1
    /\ (last.op \in {"isRight", "isLeft", "withDefault", "map", "andThen"}
            /\ ~(ArgIsRight \/ ArgIsLeft)) =>
          last.kind = isLeft(last.value, HeapBefore).kind

C13_Witness ==
    /\ last.op = "withDefault"
    /\ last.value = Null
    /\ cur = Null
    /\ last.kind = "throw"
    /\ StrictOutcomes(cur, heap) = {"throw"}
    /\ LenientOutcomes(cur, heap) = {"return"}

\* C14: when f raises err on the payload of a Right, andThen(f, ..) raises that
\* same err to its caller and returns nothing, the caller being left with the
\* Right it had; map with the same f on the same Right returns a Left of err.
C14_AndThenPropagates ==
    (last.op = "andThen" /\ ArgIsRight /\ FOnPayload.kind = "throw") =>
        /\ last.kind = "throw"
        /\ last.val = FOnPayload.val
        /\ last.calls = OneCallOnPayload
        /\ cur = last.value
        /\ heap = HeapBefore
        /\ LET m == map(last.f, last.value, HeapBefore)
           IN  /\ m.kind = "return"
               /\ InstanceOf(m.val, "Left", m.heap)
               /\ m.heap[m.val.addr].error = last.val

C14_Witness ==
    /\ last.op = "andThen"
    /\ last.f = "throwString"
    /\ ArgIsRight
    /\ last.kind = "throw"
    /\ last.val = Str("oops")

\* what f does, and what onError does on what f raised, in the latest tryCatch
ThunkDone == ApplyFn(last.f, Undefined, HeapBefore)

OnErrorDone == ApplyFn(last.g, ThunkDone.val, ThunkDone.heap)

RECURSIVE Deep(_, _)
Deep(v, h) ==
    CASE v.k = "ref" ->
            IF h[v.addr].proto = "Right"
            THEN [k |-> "Right", value |-> Deep(h[v.addr].value, h)]
            ELSE [k |-> "Left", error |-> Deep(h[v.addr].error, h)]
      [] v.k = "app" -> App(v.fn, Deep(v.arg, h))
      [] OTHER -> v

\* C16: map(g, map(f, right(v))) and map(x => g(f(x)), right(v)) are the same
\* variant with the same payload, for all f and g, raising ones included.
C16_FunctorComposition ==
    \A f \in Fns, g \in Fns :
        (last.op = "map" /\ ArgIsRight /\ last.f = ComposedName(g, f)) =>
            LET inner == map(f, last.value, HeapBefore)
                outer == map(g, inner.val, inner.heap)
            IN  /\ inner.kind = "return"
                /\ outer.kind = "return"
                /\ last.kind = "return"
                /\ Deep(outer.val, outer.heap) = Deep(last.val, heap)

\* f raises on the payload, so g is never reached on either side
C16_Witness ==
    /\ last.op = "map"
    /\ last.f = ComposedName("add1", "removeFirstElement")
    /\ ArgIsRight
    /\ heap[last.value.addr].value = Arr(<<>>)
    /\ InstanceOf(last.val, "Left", heap)
    /\ heap[last.val.addr].error = Err("Array is empty")

Min(a, b) == IF a <= b THEN a ELSE b

\* C17: the remove-first step applied k times to an array of length n, the
\* first time directly and then through andThen, gives a Right of the array
\* without its first k elements when k <= n and a Left of the 'Array is empty'
\* error when k > n; the step is invoked min(k, n + 1) times and the Left is
\* the one the first failing step built.  Of such a Left caseOf returns the
\* string 'Array is empty' and withDefault the default.
C17_RemoveFirstChain ==
    /\ last.op = "pipeline" =>
          LET items == last.arg.initialValue.items
              n == Len(items)
              k == last.arg.steps
          IN  /\ last.kind = "return"
              /\ Len(last.calls) = Min(k, n + 1)
              /\ \A i \in DOMAIN last.calls :
                    /\ last.calls[i].fn = "safeRemoveFirst"
                    /\ last.calls[i].arg = Arr(SubSeq(items, i, n))
              /\ Len(heap) = Min(k, n + 1)
              /\ k <= n =>
                    /\ InstanceOf(last.val, "Right", heap)
                    /\ heap[last.val.addr].value = Arr(SubSeq(items, k + 1, n))
              /\ k > n =>
                    /\ InstanceOf(last.val, "Left", heap)
                    /\ last.val = Ref(n + 1)
                    /\ heap[last.val.addr].error = Err("Array is empty")
                    /\ caseOf(ChainHandlers, last.val, heap).kind = "return"
                    /\ caseOf(ChainHandlers, last.val, heap).val = Str("Array is empty")
                    /\ \A d \in Defaults : withDefault(last.val, d, heap).val = d
    /\ (last.op = "caseOf" /\ ArgIsLeft /\ last.g = "message") =>
          last.kind = "return" /\ last.val = Str("Array is empty")
    /\ (last.op = "withDefault" /\ ArgIsLeft) =>
          last.kind = "return" /\ last.val = last.arg

\* two steps more than the array has elements
C17_Witness ==
    /\ last.op = "pipeline"
    /\ last.arg.initialValue = Arr(<<"b", "a">>)
    /\ last.arg.steps = 4
    /\ Len(last.calls) = 3
    /\ InstanceOf(last.val, "Left", heap)
    /\ heap[last.val.addr].error = Err("Array is empty")

\* C18: no call changes an Either that exists: every step leaves each instance
\* built so far with the variant and the payload it has, and map on a Right
\* returns a newly built instance, not its argument.
C18_NothingChanges ==
    [][ /\ Len(heap') >= Len(heap)
        /\ \A a \in DOMAIN heap : heap'[a] = heap[a]
        /\ (last'.op = "map" /\ InstanceOf(last'.value, "Right", heap)) =>
              /\ last'.kind = "return"
              /\ last'.val # last'.value
              /\ last'.val.k = "ref"
              /\ last'.val.addr \in DOMAIN heap' \ DOMAIN heap ]_vars

\* a Right of 1 mapped with add1: a second instance holds 2, the first still 1
C18_Witness ==
    /\ last.op = "map"
    /\ last.f = "add1"
    /\ ArgIsRight
    /\ heap[last.value.addr] = Right(Num(1))
    /\ last.val # last.value
    /\ heap[last.val.addr] = Right(Num(2))

C20_ChainClosed ==
    /\ Started => IsEither(cur, heap)
    /\ last.op \in {"isRight", "isLeft", "withDefault"} => last.kind = "return"
    /\ last.op \in {"isRight", "isLeft", "withDefault", "caseOf"} =>
          ~(last.kind = "throw" /\ last.val = NotAnEither(ToStr(last.value)))
    /\ (last.op = "caseOf" /\ last.kind = "throw") => Len(last.calls) = 1
    /\ (last.op = "andThen" /\ ArgIsRight /\ FOnPayload.kind = "return"
          /\ ~IsEither(FOnPayload.val, FOnPayload.heap)) =>
          /\ last.kind = "return"
          /\ last.val = FOnPayload.val
          /\ ~IsEither(last.val, heap)
          /\ heap = FOnPayload.heap

\* two steps into a chain, andThen with add1 returns the number 2 itself
C20_Witness ==
    /\ last.op = "andThen"
    /\ last.f = "add1"
    /\ last.val = Num(2)
    /\ Len(heap) >= 2
    /\ cur = last.value
    /\ InstanceOf(cur, "Right", heap)

\* C21: without assertIsEither, map and andThen given a value that is neither a
\* Right nor a Left return that very value, which is not a Left instance, and
\* invoke nothing; caseOf given such a value never invokes the Right handler:
\* on null and undefined it raises reading _error and invokes no handler, on
\* any other value it invokes the Left handler once, with undefined.
C21_LenientNonEither ==
    (last.op \in {"map", "andThen", "caseOf"} /\ ~(ArgIsRight \/ ArgIsLeft)) =>
        /\ last.op \in {"map", "andThen"} =>
              /\ last.kind = "return"
              /\ last.val = last.value
              /\ ~InstanceOf(last.val, "Left", heap)
              /\ last.calls = <<>>
              /\ heap = HeapBefore
        /\ last.op = "caseOf" =>
              /\ \A i \in DOMAIN last.calls : last.calls[i].role # "Right"
              /\ last.value.k \in {"null", "undefined"} =>
                    /\ last.kind = "throw"
                    /\ last.val = Err("Cannot read property '_error' of " \o ToStr(last.value))
                    /\ last.calls = <<>>
                    /\ heap = HeapBefore
              /\ last.value.k \notin {"null", "undefined"} =>
                    LET out == ApplyFn(last.g, Undefined, HeapBefore)
                    IN  /\ last.calls = <<[role |-> "Left", fn |-> last.g, arg |-> Undefined]>>
                        /\ last.kind = out.kind
                        /\ last.val = out.val
                        /\ heap = out.heap

\* caseOf on null: a TypeError, and neither handler was invoked
C21_Witness ==
    /\ last.op = "caseOf"
    /\ last.value = Null
    /\ last.kind = "throw"
    /\ last.val = Err("Cannot read property '_error' of null")
    /\ last.calls = <<>>

====
